---- MODULE Spec2Model ----
(***************************************************************************)
(* School expense and uniform tracker: the uniform_stock / uniform_sales / *)
(* receipts tables and the forms of app.py and enhanced_app.py that write  *)
(* them.  Both revisions run against the same schema (enhanced_app.py      *)
(* creates its tables IF NOT EXISTS and patches "older deployments"), so   *)
(* the rows written by app.py are rows enhanced_app.py reads and updates.  *)
(* Every execute_query call is one atomic step; a browser session runs its *)
(* script top to bottom, and the steps of two sessions interleave.         *)
(* Money is in thousandths of a shilling, so that the rounding of          *)
(* NUMERIC(10, 2) columns and of the two decimals on display shows.        *)
(*                                                                         *)
(* Spec and SpecSeq follow the forms and the tables, with the outcome of   *)
(* each execute_query call left open: Spec interleaves the statements of   *)
(* enhanced_app.py sessions on the uniform and receipt tabs; SpecSeq runs  *)
(* every form of both programs, app.py behind its login gate, one          *)
(* submission at a time.  SpecQuery follows one execute_query call at a    *)
(* time through its connection handling, with the tables left out: what a  *)
(* statement does to them is the business of Spec.                         *)
(***************************************************************************)
EXTENDS Integers, Sequences, FiniteSets, TLC

\* ---------------------------------------------------------------- bounds
Sessions == {1, 2}
MaxStockRows == 2
MaxSales == 2
MaxAdded == 2
MaxExpenses == 1
MaxReportRows == 3
MaxCalls == 3
MaxConns == 4

\* ------------------------------------------------------- input domains
NULL == "NULL"
Items == {"Shirt"}
SizeInputs == {"", " ", "m", "M"}
AppSizeInputs == {"", "M"}
StockQuantities == {1, 2}
SaleQuantities == {1, 2}
UnitCosts == {0, 500000}
Prices == {0, 700000}
\* unit prices with a fraction of a cent: 0.125 and 700.00 shillings
ReceiptPrices == {125, 700000}
\* "Student Name (optional)"
StudentNames == {"", "Amina"}
\* "Payment Method"
PaymentModes == {"Cash", "M-Pesa"}
\* "Payment Reference (optional)"
References == {"", "QX1"}
ReceiptIds == {"REC-A", "REC-B"}
\* datetime.now() as read by a render
Times == {1, 2}
\* the expense form: date, category, description, amount, receipt number
ExpenseDates == {1}
Categories == {"Food"}
Descriptions == {"", " ", "chalk"}
\* st.number_input returns the float as typed (format="%.2f" shapes only what
\* the widget displays): 0.000, 0.004 and 300.000 shillings
Amounts == {0, 4, 300000}
ReceiptNos == {""}
\* the expenses table as the reports find it: rows of several days and
\* categories
ReportDates == {1, 2, 3}
ReportCategories == {"Food", "Fuel"}
ReportAmounts == {300000, 450000}
\* the login form of app.py
UserInputs == {"admin", "guest"}
PasswordInputs == {"admin123", "user123"}
StockMeta ==
    { [unit_cost |-> 0, supplier |-> "Acme", invoice_no |-> "INV-1"] }

\* NUMERIC(10, 2): absolute value below 10^8
NumericLimit == 100000000

VARIABLES
    uniform_stock,   \* sequence of rows of table uniform_stock (index = id)
    uniform_sales,   \* sequence of rows of table uniform_sales
    receipts,        \* sequence of rows of table receipts
    expenses,        \* sequence of rows of table expenses
    session_state,   \* per session: st.session_state of app.py (logged_in, username)
    notice,          \* per session: the kinds of message the run has put on the page
    issued,          \* history, per receipt id: the receipt_data save_receipt was given
    pc,              \* per session: position in the script run
    form,            \* per session: the submitted form and the run's locals
    added,           \* history: quantity entered by successful stock additions, per key
    receiptStatus,   \* history, per receipt id: how far receipt issuance has come
    before,          \* history: the tables when the submission in progress began
    shown,           \* per session: the receipt document on the page, with what it was made from
    cache,           \* st.cache_resource of get_db_connection, by its argument
    connection,      \* state of every psycopg2 connection of enhanced_app.py
    app_connection,  \* state of the connection get_connection of app.py caches
    reachable,       \* whether the database server accepts connections
    qpc,             \* position of the script run that issues queries
    conn,            \* the conn local of main()
    call,            \* the execute_query call in progress: its arguments and locals
    committed,       \* history: number of write statements committed
    calls,           \* history: number of execute_query calls made
    reconnected      \* history: number of connections made on force_reconnect

gateway == <<cache, connection, app_connection, reachable, qpc, conn, call,
             committed, calls, reconnected>>

ledger == <<uniform_stock, uniform_sales, receipts, pc, form, added, receiptStatus,
            before, shown, expenses, session_state, notice, issued>>

vars == <<uniform_stock, uniform_sales, receipts, pc, form, added, receiptStatus, before,
          shown, expenses, session_state, notice, issued, cache, connection, app_connection, reachable,
          qpc, conn, call,
          committed, calls, reconnected>>

\* ------------------------------------------------------------- helpers
\* str.upper() on the size field
Upper(s) == IF s = "m" THEN "M" ELSE s

\* str.strip() on the size field: truthy iff something other than blanks remains
Strip(s) == IF s = " " THEN "" ELSE s

Keys == Items \X {"M"}

RECURSIVE SumSeq(_, _)
SumSeq(f, n) == IF n = 0 THEN 0 ELSE f[n] + SumSeq(f, n - 1)

\* rows of uniform_stock matching WHERE item = %s AND size = %s
KeyRows(stock, item, size) ==
    {i \in DOMAIN stock : stock[i].item = item /\ stock[i].size = size}

\* the stored quantity of a key: the sum over its rows
TotalQuantity(stock, item, size) ==
    SumSeq([i \in DOMAIN stock |->
              IF i \in KeyRows(stock, item, size) THEN stock[i].quantity ELSE 0],
           Len(stock))

\* quantity of all Sale rows recorded for a key
SoldQuantity(sales, item, size) ==
    SumSeq([i \in DOMAIN sales |->
              IF sales[i].item = item /\ sales[i].size = size
              THEN sales[i].quantity ELSE 0],
           Len(sales))

\* the value a NUMERIC(10, 2) column keeps of a non-negative amount: rounded
\* to two decimals, a tie away from zero
Numeric2(x) == ((x + 5) \div 10) * 10

\* NUMERIC(10, 2) takes amounts below 10^8 shillings
NumericFits(x) == x \div 1000 < NumericLimit /\ x \div 1000 > -NumericLimit

\* ------------------------------------------------------ stock management
\* check_stock_availability with the comparison quantity > %s
check_stock_availability_strict(stock, item, size, quantity, ok) ==
    ok /\ \E i \in KeyRows(stock, item, size) : stock[i].quantity > quantity

\* check_stock_availability that takes a failed query for sufficient stock
check_stock_availability_optimistic(stock, item, size, quantity, ok) ==
    ~ok \/ \E i \in KeyRows(stock, item, size) : stock[i].quantity >= quantity

\* SELECT quantity ... WHERE item, size, quantity >= %s ; bool(result), None on failure
check_stock_availability(stock, item, size, quantity, ok) ==
    ok /\ \E i \in KeyRows(stock, item, size) : stock[i].quantity >= quantity

\* update_stock that leaves alone the rows it would take below zero
update_stock_guarded(stock, item, size, quantity_change) ==
    [i \in DOMAIN stock |->
        IF i \in KeyRows(stock, item, size) /\ stock[i].quantity + quantity_change >= 0
        THEN [stock[i] EXCEPT !.quantity = @ + quantity_change]
        ELSE stock[i]]

\* UPDATE uniform_stock SET quantity = quantity + %s WHERE item = %s AND size = %s
update_stock(stock, item, size, quantity_change) ==
    [i \in DOMAIN stock |->
        IF i \in KeyRows(stock, item, size)
        THEN [stock[i] EXCEPT !.quantity = @ + quantity_change]
        ELSE stock[i]]

\* UPDATE uniform_stock SET quantity = quantity + %s, unit_cost, supplier, invoice_no
StockUpdateQuery(stock, item, size, quantity, meta) ==
    [i \in DOMAIN stock |->
        IF i \in KeyRows(stock, item, size)
        THEN [stock[i] EXCEPT !.quantity = @ + quantity,
                              !.unit_cost = meta.unit_cost,
                              !.supplier = meta.supplier,
                              !.invoice_no = meta.invoice_no]
        ELSE stock[i]]

\* INSERT INTO uniform_stock (item, size, quantity, unit_cost, supplier, invoice_no)
StockInsertQuery(stock, item, size, quantity, meta) ==
    Append(stock, [item |-> item, size |-> size, quantity |-> quantity,
                   unit_cost |-> meta.unit_cost, supplier |-> meta.supplier,
                   invoice_no |-> meta.invoice_no])

\* ------------------------------------------------------------- receipts
\* uniform_sales.receipt_id without its UNIQUE constraint
SaleIdFree_unconstrained(sales, receipt_id) == TRUE

\* receipt_id VARCHAR(255) UNIQUE on uniform_sales: NULLs never conflict
SaleIdFree(sales, receipt_id) ==
    receipt_id = NULL \/ \A i \in DOMAIN sales : sales[i].receipt_id # receipt_id

\* a sale statement that overwrites the rows of the key instead of adding one
SaleInsertQuery_replacing(sales, item, size, quantity, price, receipt_id) ==
    LET row == [item |-> item, size |-> size, quantity |-> quantity,
                selling_price |-> Numeric2(price), receipt_id |-> receipt_id]
        same == {i \in DOMAIN sales : sales[i].item = item /\ sales[i].size = size}
    IN IF same = {} THEN Append(sales, row)
       ELSE [i \in DOMAIN sales |-> IF i \in same THEN row ELSE sales[i]]

\* INSERT INTO uniform_sales (...): the rows after the statement
SaleInsertQuery(sales, item, size, quantity, price, receipt_id) ==
    Append(sales, [item |-> item, size |-> size, quantity |-> quantity,
                   selling_price |-> Numeric2(price), receipt_id |-> receipt_id])

\* receipt_id VARCHAR(255) UNIQUE NOT NULL on receipts
ReceiptIdFree(rcpts, receipt_id) ==
    /\ receipt_id # NULL
    /\ \A i \in DOMAIN rcpts : rcpts[i].receipt_id # receipt_id

\* the receipt_data dict built by the sale flow
ReceiptData(receipt_id, sale) ==
    [receipt_id |-> receipt_id,
     customer_name |-> IF sale.student_name # "" THEN sale.student_name
                       ELSE "Walk-in Customer",
     items |-> <<[name |-> sale.item, size |-> sale.size, price |-> sale.price,
                  quantity |-> sale.quantity]>>,
     total_amount |-> sale.price * sale.quantity,
     payment_mode |-> sale.payment_mode,
     reference |-> sale.reference,
     issued_by |-> "System"]

\* json.dumps(receipt_data['items']): each line item becomes the text of its
\* four values in key order
json_dumps(items) ==
    [i \in DOMAIN items |->
        <<items[i].name, items[i].size, items[i].price, items[i].quantity>>]

\* json.loads(receipt_data['items_json']): the line items read back from the text
json_loads(items_json) ==
    [i \in DOMAIN items_json |->
        [name |-> items_json[i][1], size |-> items_json[i][2],
         price |-> items_json[i][3], quantity |-> items_json[i][4]]]

\* save_receipt whose INSERT is never committed
save_receipt_uncommitted(rcpts, receipt_data) == rcpts

\* save_receipt: INSERT INTO receipts (...); the rows after the statement
save_receipt(rcpts, receipt_data) ==
    Append(rcpts, [receipt_id |-> receipt_data.receipt_id,
                   customer_name |-> receipt_data.customer_name,
                   items_json |-> json_dumps(receipt_data.items),
                   total_amount |-> Numeric2(receipt_data.total_amount),
                   payment_mode |-> receipt_data.payment_mode,
                   reference |-> receipt_data.reference,
                   issued_by |-> receipt_data.issued_by])

\* the receipt_info dict the Receipts tab builds from a row of receipts;
\* float(total_amount) is the stored value
ReceiptInfo(row) ==
    [receipt_id |-> row.receipt_id,
     customer_name |-> row.customer_name,
     items |-> json_loads(row.items_json),
     total_amount |-> row.total_amount,
     payment_mode |-> row.payment_mode,
     reference |-> row.reference,
     issued_by |-> row.issued_by]

\* f"{amount:,.2f}" on a float: the hundredths nearest to the value, a tie to
\* the even one (the amounts of the model are whole cents or eighths of a
\* shilling, which a float holds exactly)
HalfEven(amount) ==
    LET q == amount \div 10
        r == amount % 10
    IN IF r > 5 \/ (r = 5 /\ q % 2 = 1) THEN q + 1 ELSE q

\* format_currency: "KES " and the amount with two decimals, as shillings and
\* cents (no amount is None here)
format_currency(amount) == <<"KES", HalfEven(amount) \div 100, HalfEven(amount) % 100>>

\* generate_receipt_html that numbers the document by the sales recorded so far
generate_receipt_html_numbered(receipt_data, printed) ==
    [receipt_id |-> receipt_data.receipt_id,
     student |-> IF receipt_data.customer_name # "" THEN receipt_data.customer_name
                 ELSE "Walk-in Customer",
     payment_method |-> receipt_data.payment_mode,
     reference |-> IF receipt_data.reference # "" THEN receipt_data.reference
                   ELSE "N/A",
     issued_by |-> receipt_data.issued_by,
     rows |-> [i \in DOMAIN receipt_data.items |->
                 LET item == receipt_data.items[i]
                     amount == item.price * item.quantity
                 IN
                 [name |-> item.name, size |-> item.size,
                  price |-> format_currency(item.price),
                  quantity |-> item.quantity,
                  amount |-> format_currency(amount)]],
     total |-> format_currency(receipt_data.total_amount),
     printed |-> printed + Len(uniform_sales)]

\* generate_receipt_html: header, one table row per line item with
\* amount = price * quantity, the footer total and the time of rendering
generate_receipt_html(receipt_data, printed) ==
    [receipt_id |-> receipt_data.receipt_id,
     student |-> IF receipt_data.customer_name # "" THEN receipt_data.customer_name
                 ELSE "Walk-in Customer",
     payment_method |-> receipt_data.payment_mode,
     reference |-> IF receipt_data.reference # "" THEN receipt_data.reference
                   ELSE "N/A",
     issued_by |-> receipt_data.issued_by,
     rows |-> [i \in DOMAIN receipt_data.items |->
                 LET item == receipt_data.items[i]
                     amount == item.price * item.quantity
                 IN
                 [name |-> item.name, size |-> item.size,
                  price |-> format_currency(item.price),
                  quantity |-> item.quantity,
                  amount |-> format_currency(amount)]],
     total |-> format_currency(receipt_data.total_amount),
     printed |-> printed]

\* ------------------------------------------------------- query gateway
\* the connection objects a process can hold at one time
Conns == 1 .. MaxConns

\* None where a connection is expected
NoConnection == 0

\* no entry in the cache for this argument
Absent == -1

\* two retries allowed
max_retries_two == 1 + 1

\* max_retries = 1 # Allow one retry if connection fails
max_retries == 1

\* is_connection_active: conn is not None and SELECT 1 runs on it.  It
\* raises, and False is returned, on a closed connection, on one the server
\* has dropped, and in a transaction aborted by a failed statement.
is_connection_active(c) == c # NoConnection /\ connection[c] = "open"

\* the ping on a connection the server has dropped: psycopg2 marks it closed
Pinged(c) ==
    IF c # NoConnection /\ connection[c] = "lost"
    THEN [connection EXCEPT ![c] = "closed"] ELSE connection

\* psycopg2.connect in init_database: a connection object not in use so far
Fresh == CHOOSE c \in Conns :
            /\ connection[c] = "unborn"
            /\ \A d \in Conns : connection[d] = "unborn" => c <= d

\* init_database: a new connection, or None when the server cannot be reached
init_database == IF reachable THEN Fresh ELSE NoConnection

\* get_db_connection that keeps what a force_reconnect call returned under
\* its argument
get_db_connection_kept(force_reconnect) ==
    IF cache[force_reconnect] # Absent
    THEN [value |-> cache[force_reconnect], made |-> FALSE, cache |-> cache]
    ELSE [value |-> init_database,
          made |-> reachable,
          cache |-> IF force_reconnect
                    THEN [k \in BOOLEAN |-> IF k THEN init_database ELSE Absent]
                    ELSE [cache EXCEPT ![FALSE] = init_database]]

\* @st.cache_resource get_db_connection(force_reconnect): the cached value of
\* the argument if there is one; otherwise the body runs: with
\* force_reconnect, st.cache_resource.clear() discards every cache, the one
\* this call writes its result to included, so only a call without
\* force_reconnect leaves an entry behind.  The result is whatever
\* init_database returns, None included.
get_db_connection(force_reconnect) ==
    IF cache[force_reconnect] # Absent
    THEN [value |-> cache[force_reconnect], made |-> FALSE, cache |-> cache]
    ELSE [value |-> init_database,
          made |-> reachable,
          cache |-> IF force_reconnect
                    THEN [k \in BOOLEAN |-> Absent]
                    ELSE [cache EXCEPT ![FALSE] = init_database]]

\* the connection states after get_db_connection returned r
Connected(states, r) ==
    IF r.made THEN [states EXCEPT ![r.value] = "open"] ELSE states

\* connection objects nothing refers to any more are closed and freed
Collect(states, cch, cn, cl) ==
    [c \in Conns |->
        IF c \in {cch[FALSE], cch[TRUE], cn, cl.conn} THEN states[c] ELSE "unborn"]

\* execute_query of enhanced_app.py: return False if not fetch else None
FailureResult_false(fetch) == "False"

FailureResult(fetch) == IF fetch THEN "None" ELSE "False"

\* cursor.fetchall() if fetch, else True after conn.commit()
SuccessResult(fetch) == IF fetch THEN "rows" ELSE "True"

\* no execute_query call in progress
NoCall ==
    [app |-> FALSE, conn |-> NoConnection, fetch |-> FALSE, retry_count |-> 0,
     attempts |-> 0, error |-> "none", result |-> "none", base |-> 0]

\* ------------------------------------------------------------- expenses
\* amount > 0 and description.strip()
ExpenseValid(amount, description) == amount > 0 /\ Strip(description) # ""

\* INSERT INTO expenses (date, category, description, amount[, receipt_no])
ExpenseInsertQuery(rows, exp_date, category, description, amount, receipt_no) ==
    Append(rows, [date |-> exp_date, category |-> category,
                  description |-> description, amount |-> Numeric2(amount),
                  receipt_no |-> receipt_no])

\* rows of expenses an INSERT of either program can have left
ExpenseRows ==
    [date : ReportDates, category : ReportCategories, description : {"chalk"},
     amount : ReportAmounts, receipt_no : {NULL}]

ExpenseTables == UNION {[1 .. n -> ExpenseRows] : n \in 0 .. MaxReportRows}

\* SUM(amount) ... GROUP BY category over the selected ones of the first n
\* rows: one total per category that has a selected row
RECURSIVE GroupSum(_, _, _)
GroupSum(rows, n, selected) ==
    IF n = 0 THEN [c \in {} |-> 0]
    ELSE LET acc == GroupSum(rows, n - 1, selected)
             r == rows[n]
         IN IF n \notin selected THEN acc
            ELSE IF r.category \in DOMAIN acc
                 THEN [acc EXCEPT ![r.category] = @ + r.amount]
                 ELSE acc @@ (r.category :> r.amount)

\* the summary query with the end date left out of the range
ExpenseSummaryQuery_exclusive(rows, start_date, end_date) ==
    GroupSum(rows, Len(rows),
             {i \in DOMAIN rows : start_date <= rows[i].date /\ rows[i].date < end_date})

\* SELECT category, SUM(amount) FROM expenses WHERE date BETWEEN %s AND %s
\* GROUP BY category
ExpenseSummaryQuery(rows, start_date, end_date) ==
    GroupSum(rows, Len(rows),
             {i \in DOMAIN rows : start_date <= rows[i].date /\ rows[i].date <= end_date})

\* SELECT category, SUM(amount) FROM expenses GROUP BY category
AppExpenseSummaryQuery(rows) == GroupSum(rows, Len(rows), DOMAIN rows)

\* df["Amount"].sum(): the column of totals added up
RECURSIVE ColumnSum(_, _)
ColumnSum(results, categories) ==
    IF categories = {} THEN 0
    ELSE LET c == CHOOSE x \in categories : TRUE
         IN results[c] + ColumnSum(results, categories \ {c})

\* ------------------------------------------------------ app.py: login gate
\* the fixed user map of check_login
users == ("admin" :> "admin123") @@ ("user1" :> "user123")

\* user in users and pwd == users[user], with the password left unchecked
Authenticated_any_password(user, pwd) == user \in DOMAIN users

\* user in users and pwd == users[user]
Authenticated(user, pwd) == user \in DOMAIN users /\ pwd = users[user]

\* check_login() returns, and the script goes on to the tabs, only when
\* st.session_state.logged_in is set; otherwise it ends in st.stop()
check_login(s) == session_state[s].logged_in

\* ---------------------------------------------------------------- state
NoForm == [op |-> "none"]

\* what a finished run leaves to look at: which form it was and how it ended:
\*   "invalid"       the form failed validation, no statement was issued
\*   "insufficient"  the availability query ran and returned no row
\*   "check_failed"  the availability query failed (execute_query returned None)
\*   "duplicate_id"  the Sale insert hit the UNIQUE constraint on receipt_id
\*   "failed"        some other statement of the run failed
\*   "done"          every statement of the run succeeded
Outcome(op, result) == [op |-> op, result |-> result]

\* a sale run stopped by check_stock_availability, with what it asked for
Rejected(result, item, size, quantity) ==
    [op |-> "sale", result |-> result, item |-> item, size |-> size,
     quantity |-> quantity]

\* the tables as a submission finds them
Snapshot ==
    [stock |-> uniform_stock, sales |-> uniform_sales, receipts |-> receipts,
     expenses |-> expenses]

NoSnapshot == [stock |-> <<>>, sales |-> <<>>, receipts |-> <<>>, expenses |-> <<>>]

\* st.session_state of a session that has not logged in to app.py
NoSession == [logged_in |-> FALSE, username |-> NULL]

\* the run of session s has shown exactly these kinds of message: "success"
\* (st.success), "warning" (st.warning), "info" (st.info), "insufficient" (the
\* st.error of the sale form) and "error" (the st.error of a failed statement)
Notify(s, kinds) == notice' = [notice EXCEPT ![s] = kinds]

\* st.success("Sale recorded successfully!") shown only if update_stock succeeded
SaleNotice_checked(updated) == IF updated THEN {"success"} ELSE {}

\* st.success("Sale recorded successfully!") after update_stock, whatever it returned
SaleNotice(updated) == {"success"}

\* a sale run that goes on to update_stock whether or not its INSERT succeeded
AfterSaleInsert_unchecked(done) == "sale_inserted"

\* if execute_query(conn, sale_query, sale_params): the run goes on to
\* update_stock only if the Sale insert succeeded, otherwise it ends
AfterSaleInsert(done) == IF done THEN "sale_inserted" ELSE "submitted"

\* no receipt document on the page
NoReceipt == [receipt_id |-> NULL]

\* st.components.v1.html(receipt_html): the document on the page, kept with
\* the structure generate_receipt_html was given and the time it read
Shown(receipt_data, printed, receipt_html) ==
    [receipt_id |-> receipt_data.receipt_id, data |-> receipt_data,
     at |-> printed, html |-> receipt_html]

\* a sale run that shows the receipt whether or not save_receipt succeeded
RenderIfSaved_always(saved, document) == document

\* if save_receipt(conn, receipt_data): the document goes on the page only
\* when the row was saved
RenderIfSaved(saved, document) == IF saved THEN document ELSE NoReceipt

InitWith(rows) ==
    /\ uniform_stock = <<>>
    /\ uniform_sales = <<>>
    /\ receipts = <<>>
    /\ pc = [s \in Sessions |-> "idle"]
    /\ form = [s \in Sessions |-> NoForm]
    /\ added = [k \in Keys |-> 0]
    /\ receiptStatus = [r \in ReceiptIds |-> "none"]
    /\ before = NoSnapshot
    /\ shown = [s \in Sessions |-> NoReceipt]
    /\ expenses = rows
    /\ session_state = [s \in Sessions |-> NoSession]
    /\ notice = [s \in Sessions |-> {}]
    /\ issued = [r \in ReceiptIds |-> NoReceipt]
    /\ cache = [k \in BOOLEAN |-> Absent]
    /\ connection = [c \in Conns |-> "unborn"]
    /\ app_connection = "absent"
    /\ reachable = TRUE
    /\ qpc = "start"
    /\ conn = NoConnection
    /\ call = NoCall
    /\ committed = 0
    /\ calls = 0
    /\ reconnected = 0

\* the tables as create_tables makes them
Init == InitWith(<<>>)

\* the reports tab opened on an expenses table that earlier submissions filled
InitReports == \E rows \in ExpenseTables : InitWith(rows)


\* rows and quantities that runs in flight may still add (keeps the bounds)
PendingStock(item, size) ==
    SumSeq([i \in 1..Cardinality(Sessions) |->
              IF i \in Sessions /\ pc[i] = "stock_checked"
                 /\ form[i].item = item /\ form[i].size = size
              THEN form[i].quantity ELSE 0],
           Cardinality(Sessions))

PendingStockRows == Cardinality({s \in Sessions : pc[s] = "stock_checked"})

PendingSales == Cardinality({s \in Sessions : pc[s] = "sale_checked"})

\* ------------------------------------------- enhanced_app.py: stock form
\* "Update Stock" pressed: validation, then the existence check query
StockFormSubmit(s) ==
    /\ pc[s] = "idle"
    /\ \E item \in Items, raw \in SizeInputs, quantity \in StockQuantities,
          meta \in StockMeta, ok \in BOOLEAN :
         LET size == Upper(raw) IN
         IF Strip(size) = ""
         THEN /\ pc' = [pc EXCEPT ![s] = "submitted"]
              /\ form' = [form EXCEPT ![s] =
                    Outcome("stock", "invalid")]
              /\ Notify(s, {"warning"})
         ELSE /\ added[<<item, size>>] + PendingStock(item, size) + quantity <= MaxAdded
              /\ Len(uniform_stock) + PendingStockRows < MaxStockRows
              /\ pc' = [pc EXCEPT ![s] = "stock_checked"]
              /\ form' = [form EXCEPT ![s] =
                    [op |-> "stock", result |-> "checked",
                     item |-> item, size |-> size, quantity |-> quantity,
                     meta |-> meta,
                     exists |-> ok /\ KeyRows(uniform_stock, item, size) # {},
                     ok |-> ok]]
              /\ Notify(s, IF ok THEN {} ELSE {"error"})
    /\ UNCHANGED <<uniform_stock, uniform_sales, receipts, added, receiptStatus, shown,
                   expenses, session_state, issued>>

\* if exists: UPDATE ... else: INSERT ... ; then st.rerun() or the rest of the page
StockFormWrite(s) ==
    /\ pc[s] = "stock_checked"
    /\ \E ok \in BOOLEAN :
         LET f == form[s] IN
         /\ uniform_stock' =
               IF ~ok THEN uniform_stock
               ELSE IF f.exists
                    THEN StockUpdateQuery(uniform_stock, f.item, f.size, f.quantity, f.meta)
                    ELSE StockInsertQuery(uniform_stock, f.item, f.size, f.quantity, f.meta)
         /\ added' = IF ok THEN [added EXCEPT ![<<f.item, f.size>>] = @ + f.quantity]
                     ELSE added
         /\ form' = [form EXCEPT ![s] =
               Outcome("stock", IF f.ok /\ ok THEN "done" ELSE "failed")]
         /\ Notify(s, notice[s] \cup (IF ok THEN {"success"} ELSE {"error"}))
    /\ pc' = [pc EXCEPT ![s] = "submitted"]
    /\ UNCHANGED <<uniform_sales, receipts, receiptStatus, shown,
                   expenses, session_state, issued>>

\* ------------------------------------------- enhanced_app.py: sales form
\* "Record Sale" pressed: validation, then check_stock_availability
SalesFormWith(s, prices, names, modes, references) ==
    /\ pc[s] = "idle"
    /\ \E item \in Items, raw \in SizeInputs, quantity \in SaleQuantities,
          price \in prices, student_name \in names, payment_mode \in modes,
          reference \in references, generate_receipt \in BOOLEAN, ok \in BOOLEAN :
         LET size == Upper(raw)
         IN
         IF ~(Strip(size) # "" /\ price > 0 /\ quantity > 0)
         THEN /\ pc' = [pc EXCEPT ![s] = "submitted"]
              /\ form' = [form EXCEPT ![s] =
                    Outcome("sale", "invalid")]
              /\ Notify(s, {"warning"})
         ELSE IF ~check_stock_availability(uniform_stock, item, size, quantity, ok)
         THEN /\ pc' = [pc EXCEPT ![s] = "submitted"]
              /\ form' = [form EXCEPT ![s] =
                    Rejected(IF ok THEN "insufficient" ELSE "check_failed",
                             item, size, quantity)]
              /\ Notify(s, IF ok THEN {"insufficient"} ELSE {"error", "insufficient"})
         ELSE /\ Len(uniform_sales) + PendingSales < MaxSales
              /\ pc' = [pc EXCEPT ![s] = "sale_checked"]
              /\ form' = [form EXCEPT ![s] =
                    [op |-> "sale", result |-> "available",
                     item |-> item, size |-> size, quantity |-> quantity,
                     price |-> price, student_name |-> student_name,
                     payment_mode |-> payment_mode, reference |-> reference,
                     generate_receipt |-> generate_receipt,
                     receipt_id |-> NULL, ok |-> ok]]
              /\ Notify(s, {})
    /\ UNCHANGED <<uniform_stock, uniform_sales, receipts, added, receiptStatus, shown,
                   expenses, session_state, issued>>

\* the sale form with whole-shilling prices, paid in cash, the optional fields
\* left empty
SalesFormSubmit(s) == SalesFormWith(s, Prices, {""}, {"Cash"}, {""})

\* the sale form with every field filled in or not and prices of any precision
SalesFormSubmitAny(s) ==
    SalesFormWith(s, ReceiptPrices, StudentNames, PaymentModes, References)

\* generate_unique_id("REC-"), then INSERT INTO uniform_sales
SaleInsert(s) ==
    /\ pc[s] = "sale_checked"
    /\ \E receipt_id \in ReceiptIds, ok \in BOOLEAN :
         LET f == form[s]
             done == /\ ok
                     /\ SaleIdFree(uniform_sales, receipt_id)
                     /\ NumericFits(f.price)
         IN
         /\ uniform_sales' =
               IF done
               THEN SaleInsertQuery(uniform_sales, f.item, f.size, f.quantity,
                                    f.price, receipt_id)
               ELSE uniform_sales
         /\ receiptStatus' = IF done /\ f.generate_receipt
                             THEN [receiptStatus EXCEPT ![receipt_id] = "requested"]
                             ELSE receiptStatus
         /\ pc' = [pc EXCEPT ![s] = AfterSaleInsert(done)]
         /\ form' = [form EXCEPT ![s] =
               IF AfterSaleInsert(done) = "sale_inserted"
               THEN [f EXCEPT !.receipt_id = receipt_id, !.result = "recorded"]
               ELSE Outcome("sale", IF ok /\ ~SaleIdFree(uniform_sales, receipt_id)
                                    THEN "duplicate_id" ELSE "failed")]
         /\ Notify(s, IF done THEN notice[s] ELSE notice[s] \cup {"error"})
    /\ UNCHANGED <<uniform_stock, receipts, added, shown,
                   expenses, session_state, issued>>

\* update_stock(conn, item, size, -quantity); its result is not looked at
SaleUpdateStock(s) ==
    /\ pc[s] = "sale_inserted"
    /\ \E ok \in BOOLEAN :
         LET f == form[s] IN
         /\ uniform_stock' =
               IF ok THEN update_stock(uniform_stock, f.item, f.size, -f.quantity)
               ELSE uniform_stock
         /\ form' = [form EXCEPT ![s] =
               IF f.generate_receipt THEN [f EXCEPT !.ok = f.ok /\ ok]
               ELSE Outcome("sale", IF f.ok /\ ok THEN "done" ELSE "failed")]
         /\ pc' = [pc EXCEPT ![s] =
               IF f.generate_receipt THEN "stock_updated" ELSE "submitted"]
         /\ Notify(s, notice[s] \cup SaleNotice(ok) \cup (IF ok THEN {} ELSE {"error"}))
    /\ UNCHANGED <<uniform_sales, receipts, added, receiptStatus, shown,
                   expenses, session_state, issued>>

\* if generate_receipt: build receipt_data, save_receipt and, if that
\* succeeded, generate_receipt_html and show it; then st.rerun()
SaleSaveReceipt(s) ==
    /\ pc[s] = "stock_updated"
    /\ \E ok \in BOOLEAN, printed \in Times :
         LET f == form[s]
             receipt_data ==
                 ReceiptData(f.receipt_id, f)
             done == /\ ok
                     /\ ReceiptIdFree(receipts, f.receipt_id)
                     /\ NumericFits(receipt_data.total_amount)
         IN
         /\ receipts' = IF done THEN save_receipt(receipts, receipt_data) ELSE receipts
         /\ form' = [form EXCEPT ![s] =
               Outcome("sale", IF f.ok /\ done THEN "done" ELSE "failed")]
         /\ receiptStatus' = [receiptStatus EXCEPT ![f.receipt_id] =
               IF done THEN "saved" ELSE "failed"]
         /\ shown' = [shown EXCEPT ![s] =
               RenderIfSaved(done, Shown(receipt_data, printed,
                                         generate_receipt_html(receipt_data, printed)))]
         /\ issued' = IF done THEN [issued EXCEPT ![f.receipt_id] = receipt_data]
                      ELSE issued
         /\ Notify(s, IF done THEN notice[s] ELSE notice[s] \cup {"error"})
    /\ pc' = [pc EXCEPT ![s] = "submitted"]
    /\ UNCHANGED <<uniform_stock, uniform_sales, added,
                   expenses, session_state>>

\* ---------------------------------------- enhanced_app.py: receipts tab
\* "Reprint Receipt" pressed on a listed receipt: the detail query, then
\* generate_receipt_html on the receipt_info built from its first row
ReprintReceipt(s) ==
    /\ pc[s] = "idle"
    /\ \E i \in DOMAIN receipts, ok \in BOOLEAN, printed \in Times :
         LET receipt_detail ==
                 IF ok THEN SelectSeq(receipts,
                                LAMBDA r : r.receipt_id = receipts[i].receipt_id)
                 ELSE <<>>
         IN
         IF receipt_detail # <<>>
         THEN LET receipt_info == ReceiptInfo(receipt_detail[1]) IN
              /\ shown' = [shown EXCEPT ![s] =
                    Shown(receipt_info, printed,
                          generate_receipt_html(receipt_info, printed))]
              /\ form' = [form EXCEPT ![s] = Outcome("reprint", "done")]
              /\ Notify(s, {})
         ELSE /\ shown' = shown
              /\ form' = [form EXCEPT ![s] = Outcome("reprint", "failed")]
              /\ Notify(s, {"error"})
    /\ pc' = [pc EXCEPT ![s] = "submitted"]
    /\ UNCHANGED <<uniform_stock, uniform_sales, receipts, added, receiptStatus,
                   expenses, session_state, issued>>

\* --------------------------------------- enhanced_app.py: expenses tab
\* "Save Expense" pressed: validation, then the INSERT
ExpenseFormSubmit(s) ==
    /\ pc[s] = "idle"
    /\ \E exp_date \in ExpenseDates, category \in Categories, amount \in Amounts,
          description \in Descriptions, receipt_no \in ReceiptNos, ok \in BOOLEAN :
         LET valid == ExpenseValid(amount, description)
             done == valid /\ ok /\ NumericFits(amount)
         IN
         /\ valid => Len(expenses) < MaxExpenses
         /\ expenses' =
               IF done
               THEN ExpenseInsertQuery(expenses, exp_date, category, description,
                                       amount, receipt_no)
               ELSE expenses
         /\ form' = [form EXCEPT ![s] =
               Outcome("expense", IF ~valid THEN "invalid"
                                  ELSE IF done THEN "done" ELSE "failed")]
         /\ Notify(s, IF ~valid THEN {"warning"}
                      ELSE IF done THEN {"success"} ELSE {"error"})
    /\ pc' = [pc EXCEPT ![s] = "submitted"]
    /\ UNCHANGED <<uniform_stock, uniform_sales, receipts, added, receiptStatus, shown,
                   session_state, issued>>

\* ------------------------------------------------------ app.py: login form
\* "Login" pressed on the form check_login shows while logged_in is not set
Login(s) ==
    /\ pc[s] = "idle"
    /\ ~session_state[s].logged_in
    /\ \E user \in UserInputs, pwd \in PasswordInputs :
         IF Authenticated(user, pwd)
         THEN /\ session_state' = [session_state EXCEPT ![s] =
                    [logged_in |-> TRUE, username |-> user]]
              /\ form' = [form EXCEPT ![s] =
                    [op |-> "login", result |-> "done", user |-> user, pwd |-> pwd]]
              /\ Notify(s, {})
         ELSE /\ session_state' = session_state
              /\ form' = [form EXCEPT ![s] =
                    [op |-> "login", result |-> "invalid", user |-> user, pwd |-> pwd]]
              /\ Notify(s, {"error"})
    /\ pc' = [pc EXCEPT ![s] = "submitted"]
    /\ UNCHANGED <<uniform_stock, uniform_sales, receipts, added, receiptStatus, shown,
                   expenses, issued>>

\* ------------------------------------------------------ app.py: the forms
\* Tab 1: "Save Expense": one INSERT per valid submission
AppExpenseFormSubmit(s) ==
    /\ pc[s] = "idle"
    /\ check_login(s)
    /\ \E exp_date \in ExpenseDates, category \in Categories, amount \in Amounts,
          description \in Descriptions, ok \in BOOLEAN :
         LET valid == ExpenseValid(amount, description)
             done == valid /\ ok /\ NumericFits(amount)
         IN
         /\ valid => Len(expenses) < MaxExpenses
         /\ expenses' =
               IF done
               THEN ExpenseInsertQuery(expenses, exp_date, category, description,
                                       amount, NULL)
               ELSE expenses
         /\ form' = [form EXCEPT ![s] =
               Outcome("expense", IF ~valid THEN "invalid"
                                  ELSE IF done THEN "done" ELSE "failed")]
         /\ Notify(s, IF ~valid THEN {"warning"}
                      ELSE IF done THEN {"success"} ELSE {"error"})
    /\ pc' = [pc EXCEPT ![s] = "submitted"]
    /\ UNCHANGED <<uniform_stock, uniform_sales, receipts, added, receiptStatus, shown,
                   session_state, issued>>

\* Tab 2: "Add to Stock": one INSERT per valid submission
AppStockFormSubmit(s) ==
    /\ pc[s] = "idle"
    /\ check_login(s)
    /\ \E item \in Items, size \in AppSizeInputs, qty \in StockQuantities,
          price \in UnitCosts, ok \in BOOLEAN :
         LET valid == Strip(size) # "" /\ qty > 0 /\ price > 0
             meta == [unit_cost |-> price, supplier |-> NULL, invoice_no |-> NULL]
             done == valid /\ ok
         IN
         /\ valid => /\ added[<<item, size>>] + PendingStock(item, size) + qty <= MaxAdded
                     /\ Len(uniform_stock) + PendingStockRows < MaxStockRows
         /\ uniform_stock' =
               IF done THEN StockInsertQuery(uniform_stock, item, size, qty, meta)
               ELSE uniform_stock
         /\ added' = IF done THEN [added EXCEPT ![<<item, size>>] = @ + qty] ELSE added
         /\ form' = [form EXCEPT ![s] =
               Outcome("stock", IF ~valid THEN "invalid"
                                ELSE IF ok THEN "done" ELSE "failed")]
         /\ Notify(s, IF ~valid THEN {"warning"}
                      ELSE IF ok THEN {"success"} ELSE {"error"})
    /\ pc' = [pc EXCEPT ![s] = "submitted"]
    /\ UNCHANGED <<uniform_sales, receipts, receiptStatus, shown,
                   expenses, session_state, issued>>

\* Tab 3: "Record Sale": one INSERT per valid submission, nothing else
AppSalesFormSubmit(s) ==
    /\ pc[s] = "idle"
    /\ check_login(s)
    /\ \E stype \in Items, ssize \in AppSizeInputs, sqty \in SaleQuantities,
          sprice \in Prices, ok \in BOOLEAN :
         LET valid == Strip(ssize) # "" /\ sqty > 0 /\ sprice > 0
             done == valid /\ ok /\ NumericFits(sprice)
         IN
         /\ valid => Len(uniform_sales) + PendingSales < MaxSales
         /\ uniform_sales' =
               IF done
               THEN SaleInsertQuery(uniform_sales, stype, ssize, sqty, sprice, NULL)
               ELSE uniform_sales
         /\ form' = [form EXCEPT ![s] =
               Outcome("sale", IF ~valid THEN "invalid"
                               ELSE IF done THEN "done" ELSE "failed")]
         /\ Notify(s, IF ~valid THEN {"warning"}
                      ELSE IF done THEN {"success"} ELSE {"error"})
    /\ pc' = [pc EXCEPT ![s] = "submitted"]
    /\ UNCHANGED <<uniform_stock, receipts, added, receiptStatus, shown,
                   expenses, session_state, issued>>

\* Tab 4: the Expense Summary, over every row, one line per category
AppExpenseSummary(s) ==
    /\ pc[s] = "idle"
    /\ check_login(s)
    /\ \E ok \in BOOLEAN :
         LET exp_summary == AppExpenseSummaryQuery(expenses) IN
         /\ Notify(s, IF ~ok THEN {"error", "info"}
                      ELSE IF DOMAIN exp_summary = {} THEN {"info"} ELSE {})
         /\ form' = [form EXCEPT ![s] =
            IF ok /\ DOMAIN exp_summary # {}
            THEN [op |-> "expense_summary", result |-> "shown", program |-> "app.py",
                  rows |-> [c \in DOMAIN exp_summary |->
                               format_currency(exp_summary[c])]]
            ELSE Outcome("expense_summary", "none")]
    /\ pc' = [pc EXCEPT ![s] = "submitted"]
    /\ UNCHANGED <<uniform_stock, uniform_sales, receipts, added, receiptStatus, shown,
                   expenses, session_state, issued>>

\* -------------------------------------------- enhanced_app.py: reports tab
\* report type "Expense Summary" with a start and an end date: the query, then
\* the table of totals and their sum as "Total Expenses"
ExpenseSummaryReport(s) ==
    /\ pc[s] = "idle"
    /\ \E start_date \in ReportDates, end_date \in ReportDates, ok \in BOOLEAN :
         LET results == ExpenseSummaryQuery(expenses, start_date, end_date) IN
         /\ Notify(s, IF ~ok THEN {"error", "info"}
                      ELSE IF DOMAIN results = {} THEN {"info"} ELSE {})
         /\ form' = [form EXCEPT ![s] =
            IF ok /\ DOMAIN results # {}
            THEN [op |-> "expense_summary", result |-> "shown",
                  program |-> "enhanced_app.py",
                  start_date |-> start_date, end_date |-> end_date,
                  rows |-> results,
                  total |-> format_currency(
                                ColumnSum(results, DOMAIN results))]
            ELSE Outcome("expense_summary", "none")]
    /\ pc' = [pc EXCEPT ![s] = "submitted"]
    /\ UNCHANGED <<uniform_stock, uniform_sales, receipts, added, receiptStatus, shown,
                   expenses, session_state, issued>>

\* the script run ends (st.rerun() or the end of the page); the form is cleared
Rerun(s) ==
    /\ pc[s] = "submitted"
    /\ pc' = [pc EXCEPT ![s] = "idle"]
    /\ form' = [form EXCEPT ![s] = NoForm]
    /\ shown' = [shown EXCEPT ![s] = NoReceipt]
    /\ Notify(s, {})
    /\ UNCHANGED <<uniform_stock, uniform_sales, receipts, added, receiptStatus,
                   expenses, session_state, issued>>

\* --------------------------------------- enhanced_app.py: execute_query
\* main(): conn = get_db_connection(force_reconnect=False); st.stop() without one
MainGetConnection ==
    /\ qpc = "start"
    /\ LET r == get_db_connection(FALSE) IN
       /\ conn' = r.value
       /\ cache' = r.cache
       /\ connection' = Collect(Connected(connection, r), r.cache, r.value, call)
       /\ qpc' = IF r.value = NoConnection THEN "stopped" ELSE "page"
    /\ UNCHANGED <<app_connection, reachable, call, committed, calls, reconnected>>

\* a tab calls execute_query(conn, query, params, fetch)
ExecuteQueryCall ==
    /\ qpc = "page"
    /\ calls < MaxCalls
    /\ \E fetch \in BOOLEAN :
         call' = [NoCall EXCEPT !.conn = conn, !.fetch = fetch, !.base = committed]
    /\ qpc' = "entry"
    /\ calls' = calls + 1
    /\ UNCHANGED <<cache, connection, app_connection, reachable, conn, committed,
                   reconnected>>

\* if not is_connection_active(conn): conn = get_db_connection(force_reconnect=True)
\* and, without a connection, return False if not fetch else None
ExecuteQueryEntry ==
    /\ qpc = "entry"
    /\ IF is_connection_active(call.conn)
       THEN /\ qpc' = "run"
            /\ UNCHANGED <<cache, connection, call, reconnected>>
       ELSE LET r == get_db_connection(TRUE)
                found == [call EXCEPT !.conn = r.value]
            IN
            /\ cache' = r.cache
            /\ call' = IF r.value = NoConnection
                       THEN [found EXCEPT !.error = "no_connection",
                                          !.result = FailureResult(call.fetch)]
                       ELSE found
            /\ connection' = Collect(Connected(Pinged(call.conn), r), r.cache, conn, found)
            /\ reconnected' = IF r.made THEN reconnected + 1 ELSE reconnected
            /\ qpc' = IF r.value = NoConnection THEN "returned" ELSE "run"
    /\ UNCHANGED <<app_connection, reachable, conn, committed, calls>>

\* with conn.cursor(...) as cursor: cursor.execute(query, params), then
\* fetchall() or conn.commit(); what is raised depends on the connection
ExecuteQueryRun ==
    /\ qpc = "run"
    /\ LET c == call.conn
           tried == [call EXCEPT !.attempts = @ + 1]
       IN
       \/ /\ connection[c] = "closed"
          /\ call' = [tried EXCEPT !.error = "closed"]
          /\ qpc' = "except"
          /\ UNCHANGED <<connection, committed>>
       \/ /\ connection[c] = "lost"
          /\ call' = [tried EXCEPT !.error = "operational"]
          /\ connection' = [connection EXCEPT ![c] = "closed"]
          /\ qpc' = "except"
          /\ UNCHANGED committed
       \/ /\ connection[c] \in {"open", "aborted"}
          /\ call' = [tried EXCEPT !.error = "database"]
          /\ connection' = [connection EXCEPT ![c] = "aborted"]
          /\ qpc' = "except"
          /\ UNCHANGED committed
       \/ /\ connection[c] = "open"
          /\ call' = [tried EXCEPT !.error = "unexpected",
                                   !.result = FailureResult(call.fetch)]
          /\ qpc' = "returned"
          /\ UNCHANGED <<connection, committed>>
       \/ /\ connection[c] = "open"
          /\ call' = [tried EXCEPT !.result = SuccessResult(call.fetch)]
          /\ committed' = IF call.fetch THEN committed ELSE committed + 1
          /\ qpc' = "returned"
          /\ UNCHANGED connection
    /\ UNCHANGED <<cache, app_connection, reachable, conn, calls, reconnected>>

\* except psycopg2.Error: reconnect and call execute_query again on
\* "connection already closed" while retry_count < max_retries; otherwise
\* conn.rollback() if is_connection_active(conn), and the failure result
ExecuteQueryExcept ==
    /\ qpc = "except"
    /\ IF call.error = "closed" /\ call.retry_count < max_retries
       THEN LET r == get_db_connection(TRUE)
                found == [call EXCEPT !.conn = r.value]
            IN
            /\ cache' = r.cache
            /\ call' = IF r.value = NoConnection
                       THEN [found EXCEPT !.error = "no_connection",
                                          !.result = FailureResult(call.fetch)]
                       ELSE [found EXCEPT !.retry_count = @ + 1, !.error = "none"]
            /\ connection' = Collect(Connected(connection, r), r.cache, conn, found)
            /\ reconnected' = IF r.made THEN reconnected + 1 ELSE reconnected
            /\ qpc' = IF r.value = NoConnection THEN "returned" ELSE "entry"
       ELSE /\ call' = [call EXCEPT !.result = FailureResult(call.fetch)]
            /\ connection' = IF is_connection_active(call.conn)
                             THEN [connection EXCEPT ![call.conn] = "open"]
                             ELSE Pinged(call.conn)
            /\ qpc' = "returned"
            /\ UNCHANGED <<cache, reconnected>>
    /\ UNCHANGED <<app_connection, reachable, conn, committed, calls>>

\* execute_query has returned; the caller goes on with the page
ExecuteQueryReturn ==
    /\ qpc = "returned"
    /\ qpc' = IF call.app THEN "start" ELSE "page"
    /\ call' = NoCall
    /\ connection' = Collect(connection, cache, conn, NoCall)
    /\ UNCHANGED <<cache, app_connection, reachable, conn, committed, calls,
                   reconnected>>

\* the script run ends (end of page, st.stop() or st.rerun()); the next
\* interaction starts a new one
ScriptRerun ==
    /\ qpc \in {"page", "stopped"}
    /\ qpc' = "start"
    /\ conn' = NoConnection
    /\ connection' = Collect(connection, cache, NoConnection, call)
    /\ UNCHANGED <<cache, app_connection, reachable, call, committed, calls,
                   reconnected>>

\* ------------------------------------------------ app.py: execute_query
\* conn = get_connection() (cached, autocommit); cur.execute; any exception
\* is caught and None returned
AppExecuteQuery ==
    /\ qpc = "start"
    /\ calls < MaxCalls
    /\ \E fetch \in BOOLEAN, accepted \in BOOLEAN :
         LET usable == \/ app_connection = "open"
                       \/ app_connection = "absent" /\ reachable
             done == usable /\ accepted
         IN
         /\ app_connection' = IF usable THEN "open"
                               ELSE IF app_connection = "absent" THEN "absent"
                               ELSE "closed"
         /\ call' = [NoCall EXCEPT
                        !.app = TRUE, !.fetch = fetch, !.attempts = 1,
                        !.base = committed,
                        !.error = IF done THEN "none" ELSE "exception",
                        !.result = IF done THEN SuccessResult(fetch) ELSE "None"]
         /\ committed' = IF done /\ ~fetch THEN committed + 1 ELSE committed
    /\ qpc' = "returned"
    /\ calls' = calls + 1
    /\ UNCHANGED <<cache, connection, reachable, conn, reconnected>>

\* ------------------------------------------------- the database server
\* the server or the network drops a connection; the client has not noticed
ConnectionLost ==
    /\ \/ /\ \E c \in Conns :
                /\ connection[c] \in {"open", "aborted"}
                /\ connection' = [connection EXCEPT ![c] = "lost"]
          /\ UNCHANGED app_connection
       \/ /\ app_connection = "open"
          /\ app_connection' = "lost"
          /\ UNCHANGED connection
    /\ UNCHANGED <<cache, reachable, qpc, conn, call, committed, calls, reconnected>>

\* another session that shares the cached connection runs into the dropped
\* link: psycopg2 marks the connection object closed
LossDetected ==
    /\ \E c \in Conns :
         /\ connection[c] = "lost"
         /\ connection' = [connection EXCEPT ![c] = "closed"]
    /\ UNCHANGED <<cache, app_connection, reachable, qpc, conn, call, committed, calls,
                   reconnected>>

\* the server goes down or comes back
ReachabilityChanges ==
    /\ reachable' = ~reachable
    /\ UNCHANGED <<cache, connection, app_connection, qpc, conn, call, committed, calls,
                   reconnected>>

\* ------------------------------------------------------- specifications
\* sessions of enhanced_app.py on its uniform and receipt tabs, interleaving
\* statement by statement
Next ==
    \E s \in Sessions :
        \/ StockFormSubmit(s) /\ UNCHANGED <<before, gateway>>
        \/ StockFormWrite(s) /\ UNCHANGED <<before, gateway>>
        \/ SalesFormSubmit(s) /\ UNCHANGED <<before, gateway>>
        \/ SaleInsert(s) /\ UNCHANGED <<before, gateway>>
        \/ SaleUpdateStock(s) /\ UNCHANGED <<before, gateway>>
        \/ SaleSaveReceipt(s) /\ UNCHANGED <<before, gateway>>
        \/ ReprintReceipt(s) /\ UNCHANGED <<before, gateway>>
        \/ Rerun(s) /\ UNCHANGED <<before, gateway>>

Spec == Init /\ [][Next]_vars

\* both programs, every form, one submission at a time: a session steps only
\* while every other one is idle
Alone(s) == \A t \in Sessions \ {s} : pc[t] = "idle"

\* the history variable before follows the one submission in progress
Remember(s) ==
    before' = IF pc[s] = "idle" THEN Snapshot
              ELSE IF pc'[s] = "idle" THEN NoSnapshot ELSE before

NextSeq ==
    \E s \in Sessions :
        \/ Alone(s) /\ StockFormSubmit(s) /\ Remember(s) /\ UNCHANGED gateway
        \/ Alone(s) /\ StockFormWrite(s) /\ Remember(s) /\ UNCHANGED gateway
        \/ Alone(s) /\ SalesFormSubmit(s) /\ Remember(s) /\ UNCHANGED gateway
        \/ Alone(s) /\ SaleInsert(s) /\ Remember(s) /\ UNCHANGED gateway
        \/ Alone(s) /\ SaleUpdateStock(s) /\ Remember(s) /\ UNCHANGED gateway
        \/ Alone(s) /\ SaleSaveReceipt(s) /\ Remember(s) /\ UNCHANGED gateway
        \/ Alone(s) /\ ReprintReceipt(s) /\ Remember(s) /\ UNCHANGED gateway
        \/ Alone(s) /\ ExpenseFormSubmit(s) /\ Remember(s) /\ UNCHANGED gateway
        \/ Alone(s) /\ Login(s) /\ Remember(s) /\ UNCHANGED gateway
        \/ Alone(s) /\ AppExpenseFormSubmit(s) /\ Remember(s) /\ UNCHANGED gateway
        \/ Alone(s) /\ AppStockFormSubmit(s) /\ Remember(s) /\ UNCHANGED gateway
        \/ Alone(s) /\ AppSalesFormSubmit(s) /\ Remember(s) /\ UNCHANGED gateway
        \/ Alone(s) /\ Rerun(s) /\ Remember(s) /\ UNCHANGED gateway

SpecSeq == Init /\ [][NextSeq]_vars

\* the uniform and receipt tabs of enhanced_app.py with every field of the
\* sale form in play, one submission at a time
NextReceipts ==
    \E s \in Sessions :
        \/ Alone(s) /\ StockFormSubmit(s) /\ UNCHANGED <<before, gateway>>
        \/ Alone(s) /\ StockFormWrite(s) /\ UNCHANGED <<before, gateway>>
        \/ Alone(s) /\ SalesFormSubmitAny(s) /\ UNCHANGED <<before, gateway>>
        \/ Alone(s) /\ SaleInsert(s) /\ UNCHANGED <<before, gateway>>
        \/ Alone(s) /\ SaleUpdateStock(s) /\ UNCHANGED <<before, gateway>>
        \/ Alone(s) /\ SaleSaveReceipt(s) /\ UNCHANGED <<before, gateway>>
        \/ Alone(s) /\ ReprintReceipt(s) /\ UNCHANGED <<before, gateway>>
        \/ Alone(s) /\ Rerun(s) /\ UNCHANGED <<before, gateway>>

SpecReceipts == Init /\ [][NextReceipts]_vars

\* the Expense Summary of both programs, one page at a time
NextReports ==
    \E s \in Sessions :
        \/ Alone(s) /\ ExpenseSummaryReport(s) /\ UNCHANGED <<before, gateway>>
        \/ Alone(s) /\ Login(s) /\ UNCHANGED <<before, gateway>>
        \/ Alone(s) /\ AppExpenseSummary(s) /\ UNCHANGED <<before, gateway>>
        \/ Alone(s) /\ Rerun(s) /\ UNCHANGED <<before, gateway>>

SpecReports == InitReports /\ [][NextReports]_vars

\* one script run at a time issuing execute_query calls, and the server
NextQuery ==
    \/ MainGetConnection /\ UNCHANGED ledger
    \/ ExecuteQueryCall /\ UNCHANGED ledger
    \/ ExecuteQueryEntry /\ UNCHANGED ledger
    \/ ExecuteQueryRun /\ UNCHANGED ledger
    \/ ExecuteQueryExcept /\ UNCHANGED ledger
    \/ ExecuteQueryReturn /\ UNCHANGED ledger
    \/ ScriptRerun /\ UNCHANGED ledger
    \/ AppExecuteQuery /\ UNCHANGED ledger
    \/ ConnectionLost /\ UNCHANGED ledger
    \/ LossDetected /\ UNCHANGED ledger
    \/ ReachabilityChanges /\ UNCHANGED ledger

SpecQuery == Init /\ [][NextQuery]_vars

\* the script thread keeps running: a step of execute_query that can be
\* taken is taken
SpecQueryFair ==
    /\ SpecQuery
    /\ WF_vars(ExecuteQueryEntry /\ UNCHANGED ledger)
    /\ WF_vars(ExecuteQueryRun /\ UNCHANGED ledger)
    /\ WF_vars(ExecuteQueryExcept /\ UNCHANGED ledger)

\* ------------------------------------------------------------ properties
Quiescent == \A s \in Sessions : pc[s] \in {"idle", "submitted"}

LastSale == uniform_sales[Len(uniform_sales)]

\* some row of the key holds at least the requested quantity
Available(stock, item, size, quantity) ==
    \E i \in KeyRows(stock, item, size) : stock[i].quantity >= quantity

ReceiptsWith(receipt_id) ==
    {i \in DOMAIN receipts : receipts[i].receipt_id = receipt_id}

SalesWith(receipt_id) ==
    {i \in DOMAIN uniform_sales : uniform_sales[i].receipt_id = receipt_id}

\* C1: a sale submission that finds stored quantity >= qty and whose statements
\* all succeed creates exactly one Sale row, decreases the stored quantity of
\* its (item, size) by exactly qty and creates exactly one Receipt row if a
\* receipt was requested (none otherwise).  Stated of a finished run against
\* the tables it started from, one submission at a time.
C1_SaleDecrementsStock ==
    \A s \in Sessions :
        (pc[s] = "submitted" /\ form[s] = Outcome("sale", "done")) =>
            /\ Len(uniform_sales) = Len(before.sales) + 1
            /\ LET r == LastSale IN
               TotalQuantity(before.stock, r.item, r.size) >= r.quantity =>
                 /\ TotalQuantity(uniform_stock, r.item, r.size)
                      = TotalQuantity(before.stock, r.item, r.size) - r.quantity
                 /\ Len(receipts) = Len(before.receipts)
                      + (IF r.receipt_id # NULL /\ receiptStatus[r.receipt_id] # "none"
                         THEN 1 ELSE 0)

\* C2: a sale submission for a quantity that no stock row of the key can cover
\* (no row at all included) creates no Sale row, no Receipt row and changes no
\* stock row.  Stated in contrapositive: a sale run that has changed any table
\* has created one Sale row whose quantity was available when it was submitted.
C2_InsufficientStockRejected ==
    \A s \in Sessions :
        (/\ pc[s] # "idle"
         /\ form[s].op = "sale"
         /\ \/ uniform_sales # before.sales
            \/ receipts # before.receipts
            \/ uniform_stock # before.stock) =>
            /\ Len(uniform_sales) = Len(before.sales) + 1
            /\ Available(before.stock, LastSale.item, LastSale.size, LastSale.quantity)

\* C3: stock conservation: whenever no submission is in progress, the stored
\* quantity of every key equals the quantities added minus the quantities of
\* the Sale rows recorded for the key.
C3_StockConservation ==
    Quiescent =>
        \A k \in Keys :
            TotalQuantity(uniform_stock, k[1], k[2])
                = added[k] - SoldQuantity(uniform_sales, k[1], k[2])

\* C4: the availability check, the Sale insert and the stock decrement are
\* separate statements with nothing held between them: the decrement of a run
\* subtracts the sold quantity from every row of the key whatever the rows hold
\* by then, so two sessions that both passed the check drive the quantity
\* below zero (the state C4_NegativeStockReached).
C4_DecrementUnguarded ==
    [][\A s \in Sessions :
         (/\ pc[s] = "sale_inserted"
          /\ pc'[s] # "sale_inserted"
          /\ IF form[s].generate_receipt THEN form'[s].ok
             ELSE form'[s] = Outcome("sale", "done")) =>
            /\ Len(uniform_stock') = Len(uniform_stock)
            /\ \A i \in KeyRows(uniform_stock, form[s].item, form[s].size) :
                 uniform_stock'[i].quantity
                     = uniform_stock[i].quantity - form[s].quantity]_vars

\* C4 witness: a key with a single stock row whose quantity is negative, with
\* two Sale rows of enhanced_app.py recorded for it: both passed the check.
C4_NegativeStockReached ==
    \E k \in Keys :
        /\ Cardinality(KeyRows(uniform_stock, k[1], k[2])) = 1
        /\ TotalQuantity(uniform_stock, k[1], k[2]) < 0
        /\ Cardinality({i \in DOMAIN uniform_sales :
                          /\ uniform_sales[i].item = k[1]
                          /\ uniform_sales[i].size = k[2]
                          /\ uniform_sales[i].receipt_id # NULL}) >= 2

\* C5: with one submission at a time, no stock row ever holds a negative
\* quantity.
C5_QuantityNonNegative ==
    \A i \in DOMAIN uniform_stock : uniform_stock[i].quantity >= 0

\* the step of a sale run in which check_stock_availability is called
CheckStep(s) ==
    /\ pc[s] = "idle"
    /\ pc'[s] # "idle"
    /\ form'[s].op = "sale"
    /\ form'[s].result \in {"available", "insufficient", "check_failed"}

RequestedRowExists(s) ==
    Available(uniform_stock, form'[s].item, form'[s].size, form'[s].quantity)

\* C6 as claimed: check_stock_availability returns true if and only if a row of
\* (item, size) holds at least the requested quantity.
C6_AvailableIffRowExists ==
    [][\A s \in Sessions :
         CheckStep(s) =>
            (form'[s].result = "available" <=> RequestedRowExists(s))]_vars

\* C6 amended: check_stock_availability returns true if and only if its query
\* succeeds and a row of (item, size) holds at least the requested quantity;
\* with no such row, or with a failed query, it returns false.
C6_AvailableIffQueryOkAndRowExists ==
    [][\A s \in Sessions :
         CheckStep(s) =>
            (form'[s].result = "available"
                <=> (form'[s].result # "check_failed" /\ RequestedRowExists(s)))]_vars

\* C6 witness: a run past a check that returned true on a row holding exactly
\* the requested quantity.
C6_CheckPassed ==
    \E s \in Sessions :
        /\ pc[s] = "sale_checked"
        /\ \E i \in KeyRows(uniform_stock, form[s].item, form[s].size) :
             uniform_stock[i].quantity = form[s].quantity

\* C7: after any sequence of stock additions there is exactly one stock row
\* for every key that was ever added (and none for the others).
C7_OneRowPerKey ==
    Quiescent =>
        \A k \in Keys :
            Cardinality(KeyRows(uniform_stock, k[1], k[2]))
                = (IF added[k] > 0 THEN 1 ELSE 0)

\* C8 as claimed: in every state each Sale that opted in to receipt generation
\* has exactly one Receipt row with its receipt_id, each other Sale has none.
C8_ReceiptPerOptedInSale ==
    \A i \in DOMAIN uniform_sales :
        LET rid == uniform_sales[i].receipt_id IN
        rid # NULL =>
            Cardinality(ReceiptsWith(rid))
                = (IF receiptStatus[rid] # "none" THEN 1 ELSE 0)

\* C8 amended: in every state each Sale whose save_receipt call has succeeded
\* has exactly one Receipt row with its receipt_id; every other Sale (it did
\* not opt in, its run has not reached save_receipt yet, or save_receipt
\* failed) has none.
C8_ReceiptPerSavedSale ==
    \A i \in DOMAIN uniform_sales :
        LET rid == uniform_sales[i].receipt_id IN
        /\ rid = NULL => ReceiptsWith(rid) = {}
        /\ rid # NULL =>
             Cardinality(ReceiptsWith(rid))
                 = (IF receiptStatus[rid] = "saved" THEN 1 ELSE 0)

\* C8 witness: one Sale that opted in and has its Receipt, one that did not
\* opt in and has none.
C8_BothKindsOfSale ==
    \E i, j \in DOMAIN uniform_sales :
        /\ uniform_sales[i].receipt_id # NULL
        /\ uniform_sales[j].receipt_id # NULL
        /\ receiptStatus[uniform_sales[i].receipt_id] = "saved"
        /\ ReceiptsWith(uniform_sales[i].receipt_id) # {}
        /\ receiptStatus[uniform_sales[j].receipt_id] = "none"

\* C9: in every state no two Sale rows carry the same receipt_id (rows of
\* app.py carry none) and no two Receipt rows carry the same receipt_id,
\* whichever identifiers generate_unique_id returns.
C9_ReceiptIdsUnique ==
    /\ \A i, j \in DOMAIN uniform_sales :
         (i # j /\ uniform_sales[i].receipt_id # NULL) =>
             uniform_sales[i].receipt_id # uniform_sales[j].receipt_id
    /\ \A i, j \in DOMAIN receipts :
         i # j => receipts[i].receipt_id # receipts[j].receipt_id

\* C9 witness: generate_unique_id returned an identifier a Sale row already
\* carries and the insert was refused.
C9_RepeatedIdRefused ==
    \E s \in Sessions :
        /\ pc[s] = "submitted"
        /\ form[s] = Outcome("sale", "duplicate_id")
        /\ uniform_sales # <<>>

RECURSIVE LineTotal(_, _)
LineTotal(items, n) ==
    IF n = 0 THEN 0
    ELSE items[n].price * items[n].quantity + LineTotal(items, n - 1)

\* C10: every Receipt row has total_amount equal to the sum of price x quantity
\* over its line items, and there is exactly one Sale row with its receipt_id,
\* whose selling_price x quantity is that amount.
C10_ReceiptTotal ==
    \A i \in DOMAIN receipts :
        LET r == ReceiptInfo(receipts[i]) IN
        /\ r.total_amount = LineTotal(r.items, Len(r.items))
        /\ Cardinality(SalesWith(r.receipt_id)) = 1
        /\ \A j \in SalesWith(r.receipt_id) :
             r.total_amount = uniform_sales[j].selling_price * uniform_sales[j].quantity

\* the sessions with a receipt document on the page
Showing == {s \in Sessions : shown[s].receipt_id # NULL}

\* C11: in every receipt document generate_receipt_html produced, sale flow
\* and reprint alike, there is one row per line item of the structure it was
\* given, each row shows amount = price x quantity of its line item, and the
\* footer total is the sum of these amounts.
C11_RenderedAmounts ==
    \A s \in Showing :
        LET items == shown[s].data.items
            html == shown[s].html
        IN
        /\ DOMAIN html.rows = DOMAIN items
        /\ \A i \in DOMAIN items :
             html.rows[i].amount = format_currency(items[i].price * items[i].quantity)
        /\ html.total = format_currency(LineTotal(items, Len(items)))

\* the step of session s in which generate_receipt_html is called and its
\* document is put on the page
RenderStep(s) == shown[s].receipt_id = NULL /\ shown'[s].receipt_id # NULL

InCall == qpc \in {"entry", "run", "except"}

\* the except handler runs on the error "connection already closed" of a
\* first attempt
ClosedAtFirstAttempt ==
    /\ qpc = "except"
    /\ qpc' # "except"
    /\ call.error = "closed"
    /\ call.retry_count = 0

\* the handler ends the call with the failure result
EndsInFailure ==
    /\ qpc' = "returned"
    /\ call'.result = (IF call.fetch THEN "None" ELSE "False")
    /\ call'.attempts = call.attempts

C14_RolledBackOnError ==
    (qpc = "returned" /\ ~call.app /\ call.error = "database") =>
        /\ committed = call.base
        /\ connection[call.conn] # "aborted"

\* a step in which execute_query calls get_db_connection(force_reconnect=True)
ReconnectStep ==
    \/ /\ qpc = "entry"
       /\ qpc' # "entry"
       /\ ~is_connection_active(call.conn)
    \/ ClosedAtFirstAttempt

AppTabStep(s) ==
    AppExpenseFormSubmit(s) \/ AppStockFormSubmit(s) \/ AppSalesFormSubmit(s)

\* some row carries the mark of app.py's INSERTs, which leave the columns
\* receipt_no, receipt_id and supplier NULL
WrittenByApp ==
    \/ \E i \in DOMAIN expenses : expenses[i].receipt_no = NULL
    \/ \E i \in DOMAIN uniform_sales : uniform_sales[i].receipt_id = NULL
    \/ \E i \in DOMAIN uniform_stock : uniform_stock[i].supplier = NULL

\* C17: in app.py no tab runs, and so no statement reaches the database, in a
\* session whose logged_in flag is false; logged_in becomes true only on a login
\* submission whose username is a key of the user map and whose password is the
\* mapped value, a failed attempt leaves it false, and once true it stays true.
C17_LoginGate ==
    [][/\ WrittenByApp' => \E s \in Sessions : session_state[s].logged_in
       /\ \A s \in Sessions :
            /\ ~session_state[s].logged_in => ~AppTabStep(s)
            /\ (~session_state[s].logged_in /\ session_state'[s].logged_in) =>
                   /\ form'[s].op = "login"
                   /\ form'[s].user \in DOMAIN users
                   /\ form'[s].pwd = users[form'[s].user]
                   /\ session_state'[s].username = form'[s].user
            /\ (/\ pc[s] = "idle"
                /\ form'[s].op = "login"
                /\ ~(/\ form'[s].user \in DOMAIN users
                     /\ form'[s].pwd = users[form'[s].user])) =>
                   ~session_state'[s].logged_in
            /\ session_state[s].logged_in => session_state'[s].logged_in]_vars

\* C17 witness: one session has logged in and recorded an expense through
\* app.py while another has just been refused with another user's password
C17_RefusedBesideLoggedIn ==
    \E s, t \in Sessions :
        /\ session_state[s].logged_in
        /\ \E i \in DOMAIN expenses : expenses[i].receipt_no = NULL
        /\ ~session_state[t].logged_in
        /\ pc[t] = "submitted"
        /\ form[t].op = "login"
        /\ form[t].user = "admin"
        /\ form[t].pwd = "user123"

\* C20: no Expense row has amount <= 0 or a blank description, no Sale row has
\* a blank size, a selling price <= 0 or a quantity < 1, and a submission that
\* fails validation leaves every table as it found it.
C20_ValidationGates ==
    /\ \A i \in DOMAIN expenses :
          expenses[i].amount > 0 /\ Strip(expenses[i].description) # ""
    /\ \A i \in DOMAIN uniform_sales :
          /\ Strip(uniform_sales[i].size) # ""
          /\ uniform_sales[i].selling_price > 0
          /\ uniform_sales[i].quantity >= 1
    /\ \A s \in Sessions :
          (pc[s] = "submitted" /\ form[s].result = "invalid") => Snapshot = before

\* every row of the table before the step is still there, unchanged, after it
Kept(rows, rows_after) ==
    /\ Len(rows) <= Len(rows_after)
    /\ \A i \in DOMAIN rows : rows_after[i] = rows[i]

\* C16: Expense, Sale and Receipt rows are append-only: no step of either
\* program changes a field of an existing row of expenses, uniform_sales or
\* receipts, or removes one; updates of existing rows happen in uniform_stock
\* only.
C16_AppendOnly ==
    [][/\ Kept(expenses, expenses')
       /\ Kept(uniform_sales, uniform_sales')
       /\ Kept(receipts, receipts')]_vars

\* C16 witness: the one stock row of a key holds less than was added to it, so
\* it has been updated in place, with rows in the three append-only tables
C16_StockUpdatedBesideRows ==
    \E k \in Keys :
        /\ Cardinality(KeyRows(uniform_stock, k[1], k[2])) = 1
        /\ TotalQuantity(uniform_stock, k[1], k[2]) < added[k]
        /\ Len(uniform_sales) = 2
        /\ receipts # <<>>
        /\ expenses # <<>>

\* an Expense Summary is on the page of session s
SummaryShown(s) ==
    /\ pc[s] = "submitted"
    /\ form[s].op = "expense_summary"
    /\ form[s].result = "shown"

\* the Expense rows a summary page covers: those of its date range in
\* enhanced_app.py, every row in app.py, which asks for no range
Covered(f) ==
    IF f.program = "app.py" THEN DOMAIN expenses
    ELSE {i \in DOMAIN expenses :
            f.start_date <= expenses[i].date /\ expenses[i].date <= f.end_date}

\* the amounts of the given rows added up one row at a time
AmountOf(covered) ==
    SumSeq([i \in DOMAIN expenses |-> IF i \in covered THEN expenses[i].amount ELSE 0],
           Len(expenses))

Steps(s) == pc'[s] # pc[s]

\* a Sale row with this receipt_id is stored
SaleStored(sales, receipt_id) ==
    \E i \in DOMAIN sales : sales[i].receipt_id = receipt_id

\* C21: if the Sale insert succeeds and the following stock decrement fails,
\* the Sale row is kept, the StockItem quantity is unchanged, and the flow
\* still reports the sale as successful and proceeds to receipt issuance.
C21_PartiallyAppliedSale ==
    [][\A s \in Sessions :
          (pc[s] = "sale_inserted" /\ Steps(s) /\ "error" \in notice'[s]) =>
              /\ uniform_sales' = uniform_sales
              /\ SaleStored(uniform_sales', form[s].receipt_id)
              /\ uniform_stock' = uniform_stock
              /\ "success" \in notice'[s]
              /\ form[s].generate_receipt => pc'[s] = "stock_updated"]_vars

\* C21 witness: a run whose decrement failed after its Sale insert, about to
\* save the receipt with the success message on the page
C21_DecrementFailedReceiptNext ==
    \E s \in Sessions :
        /\ pc[s] = "stock_updated"
        /\ "error" \in notice[s]
        /\ "success" \in notice[s]
        /\ SaleStored(uniform_sales, form[s].receipt_id)

\* some row of uniform_stock holds less after the step than before
StockDecremented ==
    \E i \in DOMAIN uniform_stock :
        /\ i \in DOMAIN uniform_stock'
        /\ uniform_stock'[i].quantity < uniform_stock[i].quantity

\* C22: within one sale submission the statements occur in the order
\* availability check, Sale insert, stock decrement, Receipt insert; the stock
\* decrement is issued only after the Sale insert has succeeded, so stock is
\* never decremented for a sale whose Sale row was not created.
C22_StatementOrder ==
    [][\A s \in Sessions :
          Steps(s) =>
              /\ pc'[s] = "sale_checked" => pc[s] = "idle"
              /\ pc'[s] = "sale_inserted" => pc[s] = "sale_checked"
              /\ pc'[s] = "stock_updated" => pc[s] = "sale_inserted"
              /\ Len(uniform_sales') > Len(uniform_sales) =>
                    pc[s] = "sale_checked" /\ pc'[s] = "sale_inserted"
              /\ pc[s] = "sale_inserted" =>
                    SaleStored(uniform_sales, form[s].receipt_id)
              /\ StockDecremented => pc[s] = "sale_inserted"
              /\ Len(receipts') > Len(receipts) => pc[s] = "stock_updated"]_vars

\* C22 witness: a finished sale run with its Sale row, its decrement and its
\* Receipt row all made
C22_AllFourStatements ==
    \E s \in Sessions :
        /\ pc[s] = "submitted"
        /\ form[s] = Outcome("sale", "done")
        /\ shown[s] # NoReceipt
        /\ SaleStored(uniform_sales, shown[s].receipt_id)
        /\ \E i \in DOMAIN receipts : receipts[i].receipt_id = shown[s].receipt_id
        /\ \E k \in Keys : TotalQuantity(uniform_stock, k[1], k[2]) < added[k]
\* a Receipt row with this receipt_id is stored
ReceiptStored(rcpts, receipt_id) ==
    \E i \in DOMAIN rcpts : rcpts[i].receipt_id = receipt_id

\* C23: in the sale flow a receipt document is rendered only after its
\* Receipt row has been persisted successfully; if saving the Receipt fails
\* nothing is rendered, while the Sale row and the stock decrement already
\* applied remain.
C23_RenderAfterPersist ==
    [][\A s \in Sessions :
          (pc[s] = "stock_updated" /\ Steps(s)) =>
              /\ shown'[s] # NoReceipt =>
                    /\ shown'[s].receipt_id = form[s].receipt_id
                    /\ ~ReceiptStored(receipts, form[s].receipt_id)
                    /\ ReceiptStored(receipts', form[s].receipt_id)
              /\ receipts' = receipts =>
                    /\ shown'[s] = NoReceipt
                    /\ uniform_sales' = uniform_sales
                    /\ SaleStored(uniform_sales', form[s].receipt_id)
                    /\ uniform_stock' = uniform_stock]_vars

\* C23 witness: a sale run ended by a failed save_receipt: its Sale row and
\* its decrement are there, no Receipt row and nothing on the page
C23_SaveFailedSaleKept ==
    \E s \in Sessions, r \in ReceiptIds :
        /\ pc[s] = "submitted"
        /\ form[s] = Outcome("sale", "failed")
        /\ receiptStatus[r] = "failed"
        /\ shown[s] = NoReceipt
        /\ SaleStored(uniform_sales, r)
        /\ ~ReceiptStored(receipts, r)
        /\ notice[s] = {"success", "error"}
        /\ \E k \in Keys : TotalQuantity(uniform_stock, k[1], k[2]) < added[k]
\* C24: if generate_unique_id returns an identifier already used by an
\* existing Sale row, the Sale insert fails on the uniqueness constraint, no
\* new identifier is generated and no retry is made, and the submission
\* creates no Sale row, no Receipt row and no stock change.
C24_DuplicateIdentifier ==
    [][\A s \in Sessions :
          Steps(s) =>
              /\ Len(uniform_sales') > Len(uniform_sales) =>
                    ~SaleStored(uniform_sales,
                                uniform_sales'[Len(uniform_sales')].receipt_id)
              /\ (pc[s] = "sale_checked" /\ uniform_sales' = uniform_sales) =>
                    /\ pc'[s] = "submitted"
                    /\ form'[s] \in {Outcome("sale", "duplicate_id"),
                                     Outcome("sale", "failed")}
                    /\ "error" \in notice'[s]
                    /\ receipts' = receipts
                    /\ uniform_stock' = uniform_stock
              /\ pc[s] = "submitted" =>
                    /\ pc'[s] = "idle"
                    /\ uniform_sales' = uniform_sales
                    /\ receipts' = receipts
                    /\ uniform_stock' = uniform_stock]_vars

\* C24 witness: a sale run ended by the UNIQUE constraint on receipt_id, with
\* the Sale row that holds the identifier
C24_InsertRefused ==
    \E s \in Sessions :
        /\ pc[s] = "submitted"
        /\ form[s] = Outcome("sale", "duplicate_id")
        /\ notice[s] = {"error"}
        /\ Len(uniform_sales) = 1
        /\ receipts = <<>>
        /\ \E k \in Keys : TotalQuantity(uniform_stock, k[1], k[2]) = added[k] - 1
\* session s has a reprinted receipt on its page
Reprinted(s) ==
    /\ pc[s] = "submitted"
    /\ form[s] = Outcome("reprint", "done")
    /\ shown[s] # NoReceipt

\* what a line of a receipt document shows of its line item
LineShown(row) ==
    [name |-> row.name, size |-> row.size, price |-> row.price,
     quantity |-> row.quantity]

\* C25: for every Receipt persisted by save_receipt, reprinting it by
\* receipt_id renders the same ordered sequence of line items (name, size,
\* price, quantity) and the same total_amount, customer, payment mode,
\* reference and issuer as the original, and reprinting changes no row of any
\* table.
C25_ReprintRoundTrip ==
    /\ [](\A s \in Sessions :
            Reprinted(s) =>
                LET reprint == shown[s].html
                    original == generate_receipt_html(issued[shown[s].receipt_id],
                                                      shown[s].at)
                IN /\ DOMAIN reprint.rows = DOMAIN original.rows
                   /\ \A i \in DOMAIN reprint.rows :
                         LineShown(reprint.rows[i]) = LineShown(original.rows[i])
                   /\ reprint.total = original.total
                   /\ shown[s].data.total_amount
                         = issued[shown[s].receipt_id].total_amount
                   /\ reprint.student = original.student
                   /\ reprint.payment_method = original.payment_method
                   /\ reprint.reference = original.reference
                   /\ reprint.issued_by = original.issued_by)
    /\ [][\A s \in Sessions :
            (pc[s] = "idle" /\ Steps(s) /\ form'[s].op = "reprint") =>
                /\ uniform_stock' = uniform_stock
                /\ uniform_sales' = uniform_sales
                /\ receipts' = receipts
                /\ expenses' = expenses]_vars

\* C30: in every reachable state each Receipt row's receipt_id is the
\* receipt_id of exactly one Sale row, and the Receipt's single line item
\* carries that Sale's item, size, selling price and quantity; no Receipt
\* exists without its Sale.
C30_ReceiptOfItsSale ==
    \A i \in DOMAIN receipts :
        LET r == ReceiptInfo(receipts[i]) IN
        /\ Cardinality(SalesWith(r.receipt_id)) = 1
        /\ Len(r.items) = 1
        /\ \A j \in SalesWith(r.receipt_id) :
              /\ r.items[1].name = uniform_sales[j].item
              /\ r.items[1].size = uniform_sales[j].size
              /\ r.items[1].price = uniform_sales[j].selling_price
              /\ r.items[1].quantity = uniform_sales[j].quantity
\* C26: under any interleaving of two sessions' stock additions for the same
\* (item, size), the exists-check followed by UPDATE-or-INSERT still leaves
\* exactly one StockItem row for the key, holding the sum of both added
\* quantities.  Stated of each addition whose exists-check succeeded and
\* which finds at most one row for the key when it writes.
C26_OneRowUnderInterleaving ==
    [][\A s \in Sessions :
          (/\ pc[s] = "stock_checked"
           /\ Steps(s)
           /\ form[s].ok
           /\ "success" \in notice'[s]
           /\ Cardinality(KeyRows(uniform_stock, form[s].item, form[s].size)) <= 1) =>
              /\ Cardinality(KeyRows(uniform_stock', form[s].item, form[s].size)) = 1
              /\ TotalQuantity(uniform_stock', form[s].item, form[s].size)
                    = TotalQuantity(uniform_stock, form[s].item, form[s].size)
                        + form[s].quantity]_vars

\* C27: if the existence-check query of a stock addition fails
\* (execute_query returns None), the stock addition makes no change to
\* uniform_stock; in particular it does not insert a second row for a key
\* that already has one.
C27_FailedCheckWritesNothing ==
    [][\A s \in Sessions :
          (pc[s] = "stock_checked" /\ Steps(s) /\ ~form[s].ok) =>
              uniform_stock' = uniform_stock]_vars

\* C28: if the availability query of a sale submission fails (execute_query
\* returns None), the sale is treated as having insufficient stock: no Sale
\* row, no Receipt row and no stock change result, whatever the actual stored
\* quantity is.
C28_FailedCheckIsInsufficient ==
    [][\A s \in Sessions :
          Steps(s) =>
              /\ (pc[s] = "idle" /\ form'[s].op = "sale") =>
                    /\ uniform_sales' = uniform_sales
                    /\ receipts' = receipts
                    /\ uniform_stock' = uniform_stock
                    /\ pc'[s] = "sale_checked" =>
                          /\ form'[s].ok
                          /\ "error" \notin notice'[s]
                    /\ "error" \in notice'[s] =>
                          /\ pc'[s] = "submitted"
                          /\ form'[s].result = "check_failed"
                          /\ "insufficient" \in notice'[s]
              /\ (pc[s] = "submitted" /\ form[s].op = "sale") =>
                    /\ pc'[s] = "idle"
                    /\ uniform_sales' = uniform_sales
                    /\ receipts' = receipts
                    /\ uniform_stock' = uniform_stock]_vars

\* C28 witness: a sale run refused after its availability query failed, while
\* a row of the key holds what it asked for
C28_RefusedDespiteStock ==
    \E s \in Sessions :
        /\ pc[s] = "submitted"
        /\ form[s].op = "sale"
        /\ form[s].result = "check_failed"
        /\ notice[s] = {"error", "insufficient"}
        /\ Available(uniform_stock, form[s].item, form[s].size, form[s].quantity)
        /\ uniform_sales = <<>>
        /\ receipts = <<>>

\* C29: a recorded sale of qty decreases the total stored quantity for its
\* (item, size) by exactly qty and passes the availability check only if that
\* total is >= qty, also in states where uniform_stock holds more than one
\* row for the key.  Stated of the decrements that succeed.
C29_DecrementByQuantity ==
    [][\A s \in Sessions :
          Steps(s) =>
              /\ (pc[s] = "sale_inserted" /\ uniform_stock' # uniform_stock) =>
                    TotalQuantity(uniform_stock', form[s].item, form[s].size)
                      = TotalQuantity(uniform_stock, form[s].item, form[s].size)
                          - form[s].quantity
              /\ pc'[s] = "sale_checked" =>
                    TotalQuantity(uniform_stock, form'[s].item, form'[s].size)
                      >= form'[s].quantity]_vars
====
